---- MODULE Spec2Model ----
(***************************************************************************)
(* Event aggregation pipeline of src/index.js: six source adapters, the    *)
(* settle-all fan-out of getAllEvents, title de-duplication and the date   *)
(* sort, plus the sequential per-adapter loop of testScrapers; and the     *)
(* sequential runner of src/unnamed/part_000.                              *)
(***************************************************************************)
EXTENDS Integers, Sequences, FiniteSets, TLC

(***************************************************************************)
(* JavaScript values.                                                      *)
(*   - a title is a sequence of one-character strings; Undefined stands    *)
(*     for a missing property (item.title of a record without a title);    *)
(*   - a date is a string; Null stands for null;                           *)
(*   - a Number is [nan, n], so that NaN is a value of its own.            *)
(***************************************************************************)
Undefined == <<"<undefined>">>
Null == "<null>"
NaN == [nan |-> TRUE, n |-> 0]
Num(n) == [nan |-> FALSE, n |-> n]

IsString(v) == v # Undefined

\* !x for a string-or-null x: null and the empty string are falsy.
Falsy(x) == x = Null \/ x = ""

UpperChars == <<"A","B","C","D","E","F","G","H","I","J","K","L","M",
                "N","O","P","Q","R","S","T","U","V","W","X","Y","Z">>
LowerChars == <<"a","b","c","d","e","f","g","h","i","j","k","l","m",
                "n","o","p","q","r","s","t","u","v","w","x","y","z">>
DigitChars == <<"0","1","2","3","4","5","6","7","8","9">>

Range(s) == {s[i] : i \in 1..Len(s)}

ToLowerChar(c) ==
    IF \E i \in 1..Len(UpperChars) : UpperChars[i] = c
    THEN LowerChars[CHOOSE i \in 1..Len(UpperChars) : UpperChars[i] = c]
    ELSE c

\* String.prototype.toLowerCase
toLowerCase(s) == [i \in 1..Len(s) |-> ToLowerChar(s[i])]

IsLowerAlnum(c) == c \in Range(LowerChars) \cup Range(DigitChars)

\* s.replace(/[^a-z0-9]/g, '')
StripNonAlnum(s) == SelectSeq(s, IsLowerAlnum)

\* Variant of NormalizedTitle that forgets toLowerCase.
NormalizedTitleNoLower(name) == StripNonAlnum(name)

\* event.event_name.toLowerCase().replace(/[^a-z0-9]/g, '')
NormalizedTitle(name) == StripNonAlnum(toLowerCase(name))

RECURSIVE TrimLeft(_)
TrimLeft(s) == IF s # <<>> /\ Head(s) = " " THEN TrimLeft(Tail(s)) ELSE s
RECURSIVE TrimRight(_)
TrimRight(s) ==
    IF s # <<>> /\ s[Len(s)] = " " THEN TrimRight(SubSeq(s, 1, Len(s) - 1)) ELSE s
\* String.prototype.trim
Trim(s) == TrimRight(TrimLeft(s))

(***************************************************************************)
(* Dates.  DateParse is Date.parse on the strings the model uses, in       *)
(* seconds since the epoch (the code's milliseconds divided by 1000, which *)
(* keeps the sign of every difference); IsoDate is                         *)
(* toISOString().split('T')[0] of such a time value.                       *)
(***************************************************************************)
DateParse(s) ==
    CASE s = "2025-01-15"                    -> Num(1736899200)
      [] s = "2025-03-01"                    -> Num(1740787200)
      [] s = "2025-01-15T10:30:00Z"          -> Num(1736937000)
      [] s = "Sat, 01 Mar 2025 18:00:00 GMT" -> Num(1740852000)
      [] OTHER                               -> NaN

DayString(day) ==
    CASE day = 20103 -> "2025-01-15"
      [] day = 20148 -> "2025-03-01"

\* new Date(s).toISOString().split('T')[0]; toISOString throws a RangeError
\* on an invalid date, which IsoDateThrows reports.
IsoDateThrows(s) == DateParse(s).nan
IsoDate(s) == DayString(DateParse(s).n \div 86400)

\* new Date(a) - new Date(b)
DateDiff(a, b) ==
    IF DateParse(a).nan \/ DateParse(b).nan
    THEN NaN
    ELSE Num(DateParse(a).n - DateParse(b).n)

(***************************************************************************)
(* Events.  An event carries the fields the pipeline reads (event_name in  *)
(* the de-duplication, start_date in the sort) and website and event_link, *)
(* which identify it; the remaining fields of the source's object literals *)
(* (description, location, tags, prize, end_date) are never read by        *)
(* getAllEvents and are left out.  event_link holds the record's link      *)
(* without the constant URL prefix some adapters put in front of it.       *)
(***************************************************************************)
Event(site, name, link, date) ==
    [website |-> site, event_name |-> name, event_link |-> link, start_date |-> date]

\* A comparator that answers "before" whenever its first argument is
\* undated, also when the second is undated too.
CompareUndatedBefore(a, b) ==
    IF Falsy(a.start_date) THEN Num(-1)
    ELSE IF Falsy(b.start_date) THEN Num(1)
    ELSE DateDiff(a.start_date, b.start_date)

\* The comparator given to uniqueEvents.sort.
CompareByDate(a, b) ==
    IF Falsy(a.start_date) THEN Num(1)
    ELSE IF Falsy(b.start_date) THEN Num(-1)
    ELSE DateDiff(a.start_date, b.start_date)

(***************************************************************************)
(* Array.prototype.sort as the engine the program runs on (Node.js, V8)    *)
(* executes it for arrays shorter than 64 elements: the first run is       *)
(* counted and, when strictly descending, reversed; the remaining elements *)
(* are placed by binary insertion.  A comparator result of NaN is read as  *)
(* +0.                                                                     *)
(***************************************************************************)
CallCompare(x, y) ==
    LET v == CompareByDate(x, y) IN IF v.nan THEN 0 ELSE v.n

Reverse(s) == [i \in 1..Len(s) |-> s[Len(s) + 1 - i]]

RECURSIVE RunLength(_, _, _)
RunLength(a, idx, desc) ==
    IF idx > Len(a) THEN idx - 1
    ELSE LET order == CallCompare(a[idx], a[idx - 1]) IN
         IF (desc /\ order >= 0) \/ (~desc /\ order < 0)
         THEN idx - 1
         ELSE RunLength(a, idx + 1, desc)

CountAndMakeRun(a) ==
    LET desc == CallCompare(a[2], a[1]) < 0
        len  == RunLength(a, 3, desc)
    IN  [arr |-> IF desc
                 THEN Reverse(SubSeq(a, 1, len)) \o SubSeq(a, len + 1, Len(a))
                 ELSE a,
         len |-> len]

RECURSIVE BinarySearch(_, _, _, _)
BinarySearch(a, pivot, left, right) ==
    IF left < right
    THEN LET mid == left + ((right - left) \div 2) IN
         IF CallCompare(pivot, a[mid]) < 0
         THEN BinarySearch(a, pivot, left, mid)
         ELSE BinarySearch(a, pivot, mid + 1, right)
    ELSE left

RECURSIVE BinaryInsertionSort(_, _)
BinaryInsertionSort(a, start) ==
    IF start > Len(a) THEN a
    ELSE LET pivot == a[start]
             left  == BinarySearch(a, pivot, 1, start)
         IN  BinaryInsertionSort(
                 SubSeq(a, 1, left - 1) \o <<pivot>> \o SubSeq(a, left, start - 1)
                     \o SubSeq(a, start + 1, Len(a)),
                 start + 1)

\* A sort that returns the dated events only.
SortByDateDatedOnly(events) ==
    LET dated == SelectSeq(events, LAMBDA e : ~Falsy(e.start_date)) IN
    IF Len(dated) < 2 THEN dated
    ELSE LET run == CountAndMakeRun(dated) IN
         BinaryInsertionSort(run.arr, run.len + 1)

\* uniqueEvents.sort((a, b) => ...)
SortByDate(events) ==
    IF Len(events) < 2 THEN events
    ELSE LET run == CountAndMakeRun(events) IN
         BinaryInsertionSort(run.arr, run.len + 1)

(***************************************************************************)
(* De-duplication loop of getAllEvents.  toLowerCase is called on          *)
(* event_name: on undefined it throws a TypeError, which leaves            *)
(* getAllEvents through its promise.                                       *)
(***************************************************************************)
DedupeThrows(events) == \E i \in 1..Len(events) : ~IsString(events[i].event_name)

RECURSIVE DedupeLoop(_, _, _)
DedupeLoop(events, seenTitles, uniqueEvents) ==
    IF events = <<>> THEN uniqueEvents
    ELSE LET event == Head(events)
             normalizedTitle == NormalizedTitle(event.event_name)
         IN  IF normalizedTitle \notin seenTitles
             THEN DedupeLoop(Tail(events), seenTitles \cup {normalizedTitle},
                             Append(uniqueEvents, event))
             ELSE DedupeLoop(Tail(events), seenTitles, uniqueEvents)

Dedupe(events) == DedupeLoop(events, {}, <<>>)

(***************************************************************************)
(* Upstream data.  A raw record is what a source delivers for one listing: *)
(* its title (Undefined when the property or the title element is          *)
(* missing), its link and its date text (Null when absent).  A transport   *)
(* response either fails (the call throws or rejects), or succeeds with a  *)
(* body that holds the list of records, or succeeds with a body in which   *)
(* the list is missing.                                                    *)
(***************************************************************************)
Rec(title, link, date) == [title |-> title, link |-> link, date |-> date]

Failed == [ok |-> FALSE, hasList |-> FALSE, records |-> <<>>]
Body(records) == [ok |-> TRUE, hasList |-> TRUE, records |-> records]
NoList == [ok |-> TRUE, hasList |-> FALSE, records |-> <<>>]

Fulfilled(value) == [status |-> "fulfilled", value |-> value]
Rejected == [status |-> "rejected", value |-> <<>>]
Pending == [status |-> "pending", value |-> <<>>]

Map(F(_), s) == [i \in 1..Len(s) |-> F(s[i])]

Min(a, b) == IF a < b THEN a ELSE b

\* The per-source maximum: slice(0, 20), index >= 20, i >= 20.
MaxPerSource == 20

\* array.slice(0, 20)
Slice(records) == SubSeq(records, 1, Min(Len(records), MaxPerSource))

\* "a - b".split(' - ')[0]
SplitFirst(s) ==
    CASE s = "2025-01-15 - 2025-02-15" -> "2025-01-15"
      [] OTHER                         -> s

\* x ? new Date(x).toISOString().split('T')[0] : null
IsoOrNull(date) == IF Falsy(date) THEN Null ELSE IsoDate(date)
IsoOrNullThrows(date) == ~Falsy(date) /\ IsoDateThrows(date)
AnyDateThrows(records) ==
    \E i \in 1..Len(records) : IsoOrNullThrows(records[i].date)

\* x || null
OrNull(x) == IF Falsy(x) THEN Null ELSE x

(***************************************************************************)
(* 1. scrapeDevpost: the feed, and on any error the JSON endpoint.         *)
(***************************************************************************)
DevpostItemEvent(item) ==
    Event("Devpost", item.title, item.link, IsoOrNull(item.date))

DevpostApiEvent(h) ==
    Event("Devpost", h.title, h.link,
          IF h.date = Null THEN Null ELSE OrNull(SplitFirst(h.date)))

DevpostRssThrows(rss) ==
    ~rss.ok \/ ~rss.hasList \/ AnyDateThrows(Slice(rss.records))

scrapeDevpost(t) ==
    IF ~DevpostRssThrows(t.rss)
    THEN Fulfilled(Map(DevpostItemEvent, Slice(t.rss.records)))
    ELSE IF t.api.ok
         THEN Fulfilled(IF t.api.hasList
                        THEN Map(DevpostApiEvent, Slice(t.api.records))
                        ELSE <<>>)
         ELSE Fulfilled(<<>>)

(***************************************************************************)
(* scrapeDevpost statement by statement.  The record of a call holds the   *)
(* statement it is at (pc), what the two endpoints answer (rss, api), how  *)
(* often each endpoint has been called, and the settled result.            *)
(***************************************************************************)
DevpostIdle ==
    [pc |-> "idle", rss |-> Failed, api |-> Failed,
     rssCalls |-> 0, apiCalls |-> 0, result |-> Pending]

DevpostCall(t) ==
    [pc |-> "parseURL", rss |-> t.rss, api |-> t.api,
     rssCalls |-> 0, apiCalls |-> 0, result |-> Pending]

\* const feed = await rssParser.parseURL(...): a throw enters the catch.
DevpostParseURL(d) ==
    [d EXCEPT !.rssCalls = @ + 1,
              !.pc = IF d.rss.ok THEN "mapFeed" ELSE "axiosGet"]

\* A mapping of the feed that returns its events although the fallback is
\* entered all the same.
DevpostMapFeedFallsThrough(d) ==
    IF ~d.rss.hasList \/ AnyDateThrows(Slice(d.rss.records))
    THEN [d EXCEPT !.pc = "axiosGet"]
    ELSE [d EXCEPT !.pc = "axiosGet",
                   !.result = Fulfilled(Map(DevpostItemEvent, Slice(d.rss.records)))]

\* feed.items.slice(0, 20).map(...); return events: a throw (no items, a
\* date that toISOString rejects) enters the catch.
DevpostMapFeed(d) ==
    IF ~d.rss.hasList \/ AnyDateThrows(Slice(d.rss.records))
    THEN [d EXCEPT !.pc = "axiosGet"]
    ELSE [d EXCEPT !.pc = "done",
                   !.result = Fulfilled(Map(DevpostItemEvent, Slice(d.rss.records)))]

\* const { data } = await axios.get(...): a throw enters the inner catch,
\* which returns [].
DevpostAxiosGet(d) ==
    IF d.api.ok
    THEN [d EXCEPT !.apiCalls = @ + 1, !.pc = "mapApi"]
    ELSE [d EXCEPT !.apiCalls = @ + 1, !.pc = "done", !.result = Fulfilled(<<>>)]

\* data.hackathons?.slice(0, 20).map(...) || []; return events
DevpostMapApi(d) ==
    [d EXCEPT !.pc = "done",
              !.result = Fulfilled(IF d.api.hasList
                                   THEN Map(DevpostApiEvent, Slice(d.api.records))
                                   ELSE <<>>)]

DevpostStep(d) ==
    CASE d.pc = "parseURL" -> DevpostParseURL(d)
      [] d.pc = "mapFeed"  -> DevpostMapFeed(d)
      [] d.pc = "axiosGet" -> DevpostAxiosGet(d)
      [] d.pc = "mapApi"   -> DevpostMapApi(d)

(***************************************************************************)
(* 2. scrapeUnstop: data.data?.data?.map(...) || [], no slice.             *)
(***************************************************************************)
UnstopEvent(h) == Event("Unstop", h.title, h.link, OrNull(h.date))

scrapeUnstop(t) ==
    IF t.ok /\ t.hasList
    THEN Fulfilled(Map(UnstopEvent, t.records))
    ELSE Fulfilled(<<>>)

(***************************************************************************)
(* 3. scrapeDorahacks: (edges || []).map(...), no slice; an invalid        *)
(* startTime makes toISOString throw inside the try block.                 *)
(***************************************************************************)
DorahacksEvent(node) ==
    Event("Dorahacks", node.title, node.link, IsoOrNull(node.date))

scrapeDorahacks(t) ==
    IF t.ok /\ t.hasList /\ ~AnyDateThrows(t.records)
    THEN Fulfilled(Map(DorahacksEvent, t.records))
    ELSE Fulfilled(<<>>)

(***************************************************************************)
(* 4. scrapeDevfolio: t.launch says whether puppeteer.launch succeeded,    *)
(* t.page is the outcome of goto / waitForSelector / evaluate with the     *)
(* cards of the page, t.close says whether browser.close() succeeded.  A   *)
(* card without a title element is skipped; the first 20 cards are looked  *)
(* at.  An error thrown in the finally block replaces the return value.    *)
(***************************************************************************)
HasTitleEl(card) == card.title # Undefined

DevfolioEvent(card) ==
    Event("Devfolio", Trim(card.title), card.link, card.date)

scrapeDevfolio(t) ==
    IF ~t.launch THEN Fulfilled(<<>>)
    ELSE IF ~t.close THEN Rejected
    ELSE IF t.page.ok
         THEN Fulfilled(Map(DevfolioEvent, SelectSeq(Slice(t.page.records), HasTitleEl)))
         ELSE Fulfilled(<<>>)

(***************************************************************************)
(* scrapeDevfolio statement by statement.  The record of a call holds the  *)
(* statement it is at (pc), the awaited statement that throws (failAt, or  *)
(* "none"), the cards of the page, whether browser.close() succeeds        *)
(* (close), the state of the browser, the number of calls of               *)
(* browser.close(), the value the try or catch block returned (ret) and    *)
(* the settled result.                                                     *)
(***************************************************************************)
DevfolioStatements ==
    <<"launch", "newPage", "setUserAgent", "setViewport",
      "goto", "waitForSelector", "evaluate">>

DevfolioIdle ==
    [pc |-> "idle", failAt |-> "none", cards |-> <<>>, close |-> TRUE,
     browser |-> "none", closeCalls |-> 0, ret |-> <<>>, result |-> Pending]

DevfolioCall(failAt, cards, close) ==
    [pc |-> "launch", failAt |-> failAt, cards |-> cards, close |-> close,
     browser |-> "none", closeCalls |-> 0, ret |-> <<>>, result |-> Pending]

\* The statement after the awaited statement number k of the try block.
DevfolioAfter(k) ==
    IF k < Len(DevfolioStatements) THEN DevfolioStatements[k + 1] ELSE "finally"

\* One awaited statement of the try block: a throw enters the catch;
\* browser is assigned when launch returns; evaluate is followed by
\* return formattedEvents.
DevfolioAwait(f, k) ==
    IF f.failAt = DevfolioStatements[k]
    THEN [f EXCEPT !.pc = "catch"]
    ELSE [f EXCEPT !.pc = DevfolioAfter(k),
                   !.browser = IF k = 1 THEN "open" ELSE @,
                   !.ret = IF k = Len(DevfolioStatements)
                           THEN Map(DevfolioEvent, SelectSeq(Slice(f.cards), HasTitleEl))
                           ELSE @]

\* A catch block that settles the call at once, the finally block left out.
DevfolioCatchSkipsFinally(f) ==
    [f EXCEPT !.pc = "done", !.ret = <<>>, !.result = Fulfilled(<<>>)]

\* catch (error) { return []; }
DevfolioCatch(f) == [f EXCEPT !.pc = "finally", !.ret = <<>>]

\* finally { if (browser) await browser.close(); }: the call settles with
\* the value returned before, or rejects with what close() threw.
DevfolioFinally(f) ==
    IF f.browser = "none"
    THEN [f EXCEPT !.pc = "done", !.result = Fulfilled(f.ret)]
    ELSE IF f.close
         THEN [f EXCEPT !.pc = "done", !.closeCalls = @ + 1,
                        !.browser = "closed", !.result = Fulfilled(f.ret)]
         ELSE [f EXCEPT !.pc = "done", !.closeCalls = @ + 1,
                        !.browser = "close failed", !.result = Rejected]

DevfolioIndex(pcName) ==
    CHOOSE k \in 1..Len(DevfolioStatements) : DevfolioStatements[k] = pcName

DevfolioStep(f) ==
    CASE f.pc = "catch"   -> DevfolioCatch(f)
      [] f.pc = "finally" -> DevfolioFinally(f)
      [] OTHER            -> DevfolioAwait(f, DevfolioIndex(f.pc))

(***************************************************************************)
(* 5. scrapeHackerEarth: data.response?.slice(0, 20).map(...) || [].       *)
(***************************************************************************)
HackerEarthEvent(e) ==
    Event("HackerEarth", e.title, e.link, IsoOrNull(e.date))

scrapeHackerEarth(t) ==
    IF t.ok /\ t.hasList /\ ~AnyDateThrows(Slice(t.records))
    THEN Fulfilled(Map(HackerEarthEvent, Slice(t.records)))
    ELSE Fulfilled(<<>>)

(***************************************************************************)
(* 6. getMLHEvents: the first 20 .event elements; text() of a missing      *)
(* element is the empty string; an element with an empty title is skipped. *)
(***************************************************************************)
MLHTitle(elem) == IF elem.title = Undefined THEN <<>> ELSE Trim(elem.title)
MLHHasTitle(elem) == MLHTitle(elem) # <<>>

MLHEvent(elem) ==
    Event("MLH", MLHTitle(elem), elem.link, IF elem.date = Null THEN "" ELSE elem.date)

getMLHEvents(t) ==
    IF t.ok
    THEN Fulfilled(Map(MLHEvent, SelectSeq(Slice(t.records), MLHHasTitle)))
    ELSE Fulfilled(<<>>)

\* The adapters in the order of the array given to Promise.allSettled.
Sources == <<"Devpost", "Unstop", "Dorahacks", "Devfolio", "HackerEarth", "MLH">>
SourceIds == 1..Len(Sources)

CallAdapter(i, t) ==
    CASE i = 1 -> scrapeDevpost(t)
      [] i = 2 -> scrapeUnstop(t)
      [] i = 3 -> scrapeDorahacks(t)
      [] i = 4 -> scrapeDevfolio(t)
      [] i = 5 -> scrapeHackerEarth(t)
      [] i = 6 -> getMLHEvents(t)

(***************************************************************************)
(* The sequential runner of src/unnamed/part_000: scrapeEvents walks the   *)
(* list of sources, then the main function appends the events to the       *)
(* spreadsheet and posts one chat message per event.  The record of a run  *)
(* holds the statement it is at (pc), the index of the source the loop is  *)
(* at, what the sources answer (responses), how the spreadsheet behaves    *)
(* (sheet), the number of the chat post that fails (chatFailAt, 0 for      *)
(* none), the events array, the names of the sources fetched so far        *)
(* (scraped), the calls of updateSheet, whether the append completed, the  *)
(* chat posts made and the chat posts that succeeded.                      *)
(***************************************************************************)
LegacySources ==
    <<[name |-> "Devpost", type |-> "rss"],
      [name |-> "Devfolio", type |-> "html"],
      [name |-> "Kaggle", type |-> "html"]>>

LegacyIdle ==
    [pc |-> "idle", index |-> 1, responses |-> <<>>, sheet |-> "ok",
     chatFailAt |-> 0, events |-> <<>>, scraped |-> <<>>, sheetCalls |-> 0,
     appended |-> FALSE, chatCalls |-> 0, sent |-> 0]

LegacyRun(responses, sheet, chatFailAt) ==
    [LegacyIdle EXCEPT !.pc = "scrape", !.responses = responses,
                       !.sheet = sheet, !.chatFailAt = chatFailAt]

LegacyEvent(name, title, link) ==
    [source |-> name, title |-> title, link |-> link]

\* $(el).find(src.title).text().trim(): the text of no element is ''.
LegacyTitle(el) == IF el.title = Undefined THEN <<>> ELSE Trim(el.title)

\* if (title && link)
LegacyKeeps(el) == LegacyTitle(el) # <<>> /\ ~Falsy(el.link)

\* What one iteration of the loop pushes: every item of a feed; of a page
\* the elements with a title and a link; nothing when the fetch throws or
\* the feed has no items.
LegacyPushed(src, r) ==
    IF src.type = "rss"
    THEN IF r.ok /\ r.hasList
         THEN Map(LAMBDA item : LegacyEvent(src.name, item.title, item.link),
                  r.records)
         ELSE <<>>
    ELSE IF r.ok
         THEN Map(LAMBDA el : LegacyEvent(src.name, LegacyTitle(el), el.link),
                  SelectSeq(r.records, LegacyKeeps))
         ELSE <<>>

LegacyThrows(src, r) == ~r.ok \/ (src.type = "rss" /\ ~r.hasList)

\* A loop whose catch block empties the events array.
LegacyScrapeDropsOnFailure(l) ==
    [l EXCEPT !.scraped = Append(@, LegacySources[l.index].name),
              !.events = IF LegacyThrows(LegacySources[l.index], l.responses[l.index])
                         THEN <<>>
                         ELSE @ \o LegacyPushed(LegacySources[l.index],
                                                l.responses[l.index]),
              !.index = @ + 1,
              !.pc = IF l.index = Len(LegacySources) THEN "main" ELSE "scrape"]

\* One iteration of for (const src of sources) { try {...} catch {...} }
LegacyScrape(l) ==
    [l EXCEPT !.scraped = Append(@, LegacySources[l.index].name),
              !.events = @ \o LegacyPushed(LegacySources[l.index],
                                           l.responses[l.index]),
              !.index = @ + 1,
              !.pc = IF l.index = Len(LegacySources) THEN "main" ELSE "scrape"]

\* if (events.length > 0) {...} else {...}
LegacyMain(l) ==
    [l EXCEPT !.pc = IF Len(l.events) > 0 THEN "updateSheet" ELSE "done"]

\* await updateSheet(events): a throw of getSheets or of append leaves the
\* main function.
LegacyUpdateSheet(l) ==
    IF l.sheet = "ok"
    THEN [l EXCEPT !.sheetCalls = @ + 1, !.appended = TRUE,
                   !.pc = "sendToTelegram"]
    ELSE [l EXCEPT !.sheetCalls = @ + 1, !.pc = "crashed"]

\* One iteration of the loop of sendToTelegram: await axios.post(...)
LegacySendMessage(l) ==
    IF l.chatFailAt = l.chatCalls + 1
    THEN [l EXCEPT !.chatCalls = @ + 1, !.pc = "crashed"]
    ELSE [l EXCEPT !.chatCalls = @ + 1, !.sent = @ + 1,
                   !.pc = IF l.chatCalls + 1 = Len(l.events)
                          THEN "done" ELSE "sendToTelegram"]

LegacyStep(l) ==
    CASE l.pc = "scrape"         -> LegacyScrape(l)
      [] l.pc = "main"           -> LegacyMain(l)
      [] l.pc = "updateSheet"    -> LegacyUpdateSheet(l)
      [] l.pc = "sendToTelegram" -> LegacySendMessage(l)

(***************************************************************************)
(* State.                                                                  *)
(*   pc          where getAllEvents is: "idle" before the call, "awaiting" *)
(*               at await Promise.allSettled, then "resolved" (returned)   *)
(*               or "rejected" (an exception left the function)            *)
(*   outcome     per adapter, the state of the promise its call returned   *)
(*   settleOrder the adapters in the order in which their promises settled *)
(*   allEvents, stats, returned   the locals of getAllEvents and its value *)
(*   listIn, listOut, applied     input, output and progress of one        *)
(*               application of the de-duplication or of the sort          *)
(*   resort      whether the sort has been applied a second time, and its  *)
(*               output                                                    *)
(*   testIndex, testResult        position of the loop of testScrapers and *)
(*               the outcome of the adapter call it made last              *)
(*   testInput   what the transports of that call answered                 *)
(*   hung        the adapters whose transport call never returns           *)
(*   devpost     one call of scrapeDevpost, statement by statement         *)
(*   devfolio    one call of scrapeDevfolio, statement by statement        *)
(*   legacy      one run of the sequential runner, statement by statement  *)
(***************************************************************************)
VARIABLES pc, outcome, settleOrder, allEvents, stats, returned, hung,
          listIn, listOut, applied, resort, testIndex, testResult, testInput,
          devpost, devfolio, legacy

vars == <<pc, outcome, settleOrder, allEvents, stats, returned, hung,
          listIn, listOut, applied, resort, testIndex, testResult, testInput,
          devpost, devfolio, legacy>>
pipelineVars == <<pc, outcome, settleOrder, allEvents, stats, returned, hung>>
listVars == <<listIn, listOut, applied, resort>>
testVars == <<testIndex, testResult, testInput>>
callVars == <<devpost, devfolio, legacy>>

(***************************************************************************)
(* Titles and upstream responses of the pipeline runs.                     *)
(***************************************************************************)
TitleAIHack == <<"A", "I", " ", "H", "a", "c", "k">>
TitleAIHackBang == <<"A", "I", " ", "H", "a", "c", "k", "!", "!">>
TitleAIHackLower == <<"a", "i", "h", "a", "c", "k">>
TitleWeb3Jam == <<"W", "e", "b", "3", " ", "J", "a", "m">>
TitleCodeFest == <<"C", "o", "d", "e", "F", "e", "s", "t">>
TitleCodeFestPadded == <<" ", "C", "o", "d", "e", "F", "e", "s", "t", " ">>
TitleBangs == <<"!", "!">>

DevpostTransports ==
    { [rss |-> Failed, api |-> Failed],
      [rss |-> Body(<<Rec(TitleAIHack, "dp/1", "Sat, 01 Mar 2025 18:00:00 GMT")>>),
       api |-> Failed],
      [rss |-> Failed,
       api |-> Body(<<Rec(TitleWeb3Jam, "dp/2", "2025-01-15 - 2025-02-15")>>)] }

UnstopTransports ==
    { Failed,
      Body(<<Rec(TitleAIHackBang, "un/1", Null),
             Rec(TitleWeb3Jam, "un/2", "TBA"),
             Rec(TitleCodeFest, "un/3", "2025-01-15")>>),
      Body(<<Rec(Undefined, "un/4", "2025-03-01")>>) }

DorahacksTransports ==
    { Failed,
      Body(<<Rec(<<>>, "dh/1", "2025-01-15T10:30:00Z")>>) }

DevfolioTransports ==
    { [launch |-> FALSE, page |-> Failed, close |-> TRUE],
      [launch |-> TRUE, close |-> TRUE,
       page |-> Body(<<Rec(TitleCodeFestPadded, "df/1", "TBA"),
                       Rec(Undefined, "df/2", Null)>>)],
      [launch |-> TRUE, page |-> Failed, close |-> FALSE] }

HackerEarthTransports ==
    { Failed,
      Body(<<Rec(TitleAIHackLower, "he/1", "2025-01-15T10:30:00Z")>>) }

MLHTransports ==
    { Body(<<>>),
      Body(<<Rec(TitleWeb3Jam, "mlh/1", Null), Rec(Undefined, "mlh/2", "TBA"),
             Rec(TitleBangs, "mlh/3", "2025-03-01")>>) }

Transports(i) ==
    CASE i = 1 -> DevpostTransports
      [] i = 2 -> UnstopTransports
      [] i = 3 -> DorahacksTransports
      [] i = 4 -> DevfolioTransports
      [] i = 5 -> HackerEarthTransports
      [] i = 6 -> MLHTransports

(***************************************************************************)
(* getAllEvents.                                                           *)
(***************************************************************************)
\* Variant of SettledResults that lists the outcomes in completion order.
SettledResultsByCompletion == [k \in SourceIds |-> outcome[settleOrder[k]]]

\* The array Promise.allSettled resolves with: one entry per adapter, at
\* the adapter's position in the argument array.
SettledResults == [i \in SourceIds |-> outcome[i]]

\* Variant of AllSettled with the fail-fast join of Promise.all: the join is
\* over as soon as one promise has rejected.
FailFastJoin ==
    \/ \E i \in SourceIds : outcome[i].status = "rejected"
    \/ \A i \in SourceIds : outcome[i].status # "pending"

\* Promise.allSettled resolves once every promise has settled.
AllSettled == \A i \in SourceIds : outcome[i].status # "pending"

\* results.forEach((result, index) => ...)
RECURSIVE CollectLoop(_, _, _)
CollectLoop(results, index, acc) ==
    IF index > Len(results) THEN acc
    ELSE LET result == results[index] IN
         IF result.status = "fulfilled" /\ Len(result.value) > 0
         THEN CollectLoop(results, index + 1,
                          [allEvents |-> acc.allEvents \o result.value,
                           success |-> acc.success + 1,
                           failed |-> acc.failed])
         ELSE CollectLoop(results, index + 1,
                          [allEvents |-> acc.allEvents,
                           success |-> acc.success,
                           failed |-> acc.failed + 1])

\* Variant of Collect that counts every fulfilled promise as a success.
RECURSIVE CollectFulfilledLoop(_, _, _)
CollectFulfilledLoop(results, index, acc) ==
    IF index > Len(results) THEN acc
    ELSE LET result == results[index] IN
         IF result.status = "fulfilled"
         THEN CollectFulfilledLoop(results, index + 1,
                          [allEvents |-> acc.allEvents \o result.value,
                           success |-> acc.success + 1,
                           failed |-> acc.failed])
         ELSE CollectFulfilledLoop(results, index + 1,
                          [allEvents |-> acc.allEvents,
                           success |-> acc.success,
                           failed |-> acc.failed + 1])

CollectCountsFulfilled(results) ==
    CollectFulfilledLoop(results, 1, [allEvents |-> <<>>, success |-> 0, failed |-> 0])

Collect(results) ==
    CollectLoop(results, 1, [allEvents |-> <<>>, success |-> 0, failed |-> 0])

PipelineInit ==
    /\ pc = "idle"
    /\ outcome = [i \in SourceIds |-> Pending]
    /\ settleOrder = <<>>
    /\ allEvents = <<>>
    /\ stats = [success |-> 0, failed |-> 0]
    /\ returned = <<>>
    /\ hung = {}

NotResorted == [done |-> FALSE, out |-> <<>>]

ListInit == listIn = <<>> /\ listOut = <<>> /\ applied = FALSE /\ resort = NotResorted

NoCall == [ok |-> FALSE, hasList |-> FALSE, records |-> <<>>, called |-> FALSE]

TestInit == testIndex = 1 /\ testResult = Pending /\ testInput = NoCall

\* getAllEvents is called: the six adapter calls are made and awaited.
Start ==
    /\ pc = "idle"
    /\ pc' = "awaiting"
    /\ UNCHANGED <<outcome, settleOrder, allEvents, stats, returned, hung>>
    /\ UNCHANGED listVars
    /\ UNCHANGED testVars
    /\ UNCHANGED callVars

\* The promise of adapter i settles, on any response of its transport.
Settle(i) ==
    /\ pc = "awaiting"
    /\ outcome[i].status = "pending"
    /\ i \notin hung
    /\ \E t \in Transports(i) :
           outcome' = [outcome EXCEPT ![i] = CallAdapter(i, t)]
    /\ settleOrder' = Append(settleOrder, i)
    /\ UNCHANGED <<pc, allEvents, stats, returned, hung>>
    /\ UNCHANGED listVars
    /\ UNCHANGED testVars
    /\ UNCHANGED callVars

\* The continuation of getAllEvents after the await: collect, de-duplicate,
\* sort, return.
Aggregate ==
    /\ pc = "awaiting"
    /\ AllSettled
    /\ LET collected == Collect(SettledResults) IN
       /\ allEvents' = collected.allEvents
       /\ stats' = [success |-> collected.success, failed |-> collected.failed]
       /\ IF DedupeThrows(collected.allEvents)
          THEN pc' = "rejected" /\ returned' = <<>>
          ELSE pc' = "resolved"
               /\ returned' = SortByDate(Dedupe(collected.allEvents))
    /\ UNCHANGED <<outcome, settleOrder, hung>>
    /\ UNCHANGED listVars
    /\ UNCHANGED testVars
    /\ UNCHANGED callVars

CallInit ==
    /\ devpost = DevpostIdle
    /\ devfolio = DevfolioIdle
    /\ legacy = LegacyIdle

Init == PipelineInit /\ ListInit /\ TestInit /\ CallInit

Next == Start \/ (\E i \in SourceIds : Settle(i)) \/ Aggregate

Spec == Init /\ [][Next]_vars

(***************************************************************************)
(* Properties of the pipeline runs (specification Spec).                   *)
(***************************************************************************)
Finished == pc \in {"resolved", "rejected"}

Contributes(i) == outcome[i].status = "fulfilled" /\ Len(outcome[i].value) > 0

\* s occurs in t as a block of consecutive elements.
IsBlockOf(s, t) ==
    \E k \in 0..(Len(t) - Len(s)) : SubSeq(t, k + 1, k + Len(s)) = s

\* The results of the contributing adapters, in registration order.
RECURSIVE RegistrationConcat(_)
RegistrationConcat(i) ==
    IF i = 0 THEN <<>>
    ELSE RegistrationConcat(i - 1) \o (IF Contributes(i) THEN outcome[i].value ELSE <<>>)

\* C1: a run of getAllEvents never ends in an error, whatever the adapters
\* do and whatever records they return.
C1_NeverRejects == pc # "rejected"

\* C2: whichever adapters throw or reject, the join waits for every adapter,
\* and every adapter that resolved with at least one event has its events,
\* unchanged and together, in the combined list given to de-duplication.
C2_FaultIsolation ==
    Finished =>
        /\ \A i \in SourceIds : outcome[i].status # "pending"
        /\ \A i \in SourceIds : Contributes(i) => IsBlockOf(outcome[i].value, allEvents)

C2_Witness ==
    /\ pc = "resolved"
    /\ outcome[4].status = "rejected"
    /\ settleOrder[1] = 4
    /\ outcome[1].value = <<>>
    /\ Contributes(2) /\ Contributes(5) /\ Contributes(6)

\* C3: after every run stats.success is the number of adapters that resolved
\* with at least one event, stats.failed the number of all other adapters,
\* and the two add up to the number of adapters.
C3_Stats ==
    Finished =>
        /\ stats.success = Cardinality({i \in SourceIds : Contributes(i)})
        /\ stats.failed = Cardinality({i \in SourceIds : ~Contributes(i)})
        /\ stats.success + stats.failed = Len(Sources)

\* One adapter resolved with 3 events, one rejected, the others resolved
\* with no event: 3 combined events, 1 success, all others failed.
C3_Witness ==
    /\ pc = "resolved"
    /\ Len(outcome[2].value) = 3
    /\ outcome[4].status = "rejected"
    /\ outcome[6] = Fulfilled(<<>>)
    /\ Len(allEvents) = 3
    /\ stats = [success |-> 1, failed |-> Len(Sources) - 1]

\* C4: the combined list is the concatenation of the contributing adapters'
\* results in registration order, whatever the order in which the adapters
\* completed.
C4_RegistrationOrder ==
    Finished => allEvents = RegistrationConcat(Len(Sources))

C4_Witness ==
    /\ pc = "resolved"
    /\ settleOrder = <<6, 5, 4, 3, 2, 1>>
    /\ Contributes(1) /\ Contributes(2) /\ Contributes(6)

\* C5: every event in the list getAllEvents returns has a non-empty website
\* and a non-empty event name.
C5_NamedEvents ==
    pc = "resolved" =>
        \A k \in 1..Len(returned) :
            /\ returned[k].website # ""
            /\ returned[k].event_name # <<>>

(***************************************************************************)
(* De-duplication on its own (specification DedupSpec): the combined list  *)
(* is any list of at most MaxDedupLen events whose titles are drawn from   *)
(* DedupTitles; the event at position i comes from the i-th source, so     *)
(* that the list has the shape of a concatenation in registration order.   *)
(***************************************************************************)
MaxDedupLen == 4

DedupTitles ==
    {TitleAIHack, TitleAIHackBang, TitleAIHackLower, TitleWeb3Jam, TitleBangs, <<>>}

DedupLinks == <<"l1", "l2", "l3", "l4", "l5", "l6", "l7", "l8", "l9">>

\* The combined list of n events with the titles f[1], ..., f[n].
DedupInput(n, f) ==
    [i \in 1..n |-> Event(Sources[Min(i, 5)], f[i], DedupLinks[i], Null)]

DedupInit ==
    /\ \E n \in 0..MaxDedupLen :
           \E f \in [1..n -> DedupTitles] : listIn = DedupInput(n, f)
    /\ listOut = <<>>
    /\ applied = FALSE
    /\ resort = NotResorted

\* The de-duplication loop of getAllEvents, run on listIn.
ApplyDedupe ==
    /\ ~applied
    /\ ~DedupeThrows(listIn)
    /\ listOut' = Dedupe(listIn)
    /\ applied' = TRUE
    /\ UNCHANGED <<listIn, resort>>
    /\ UNCHANGED pipelineVars
    /\ UNCHANGED testVars
    /\ UNCHANGED callVars

DedupNext == ApplyDedupe

DedupStart == PipelineInit /\ DedupInit /\ TestInit /\ CallInit

DedupSpec == DedupStart /\ [][DedupNext]_vars

\* The key of a title as the claim words it: the characters of the title,
\* lowercased, that are lowercase letters or digits.
RECURSIVE TitleKey(_)
TitleKey(name) ==
    IF name = <<>> THEN <<>>
    ELSE LET c == ToLowerChar(Head(name)) IN
         (IF IsLowerAlnum(c) THEN <<c>> ELSE <<>>) \o TitleKey(Tail(name))

\* The positions of listIn that hold the first event of their key.
FirstPositions ==
    {i \in 1..Len(listIn) :
        \A j \in 1..(i - 1) :
            TitleKey(listIn[j].event_name) # TitleKey(listIn[i].event_name)}

\* The k-th smallest member of a set of positions.
NthOf(S, k) == CHOOSE i \in S : Cardinality({j \in S : j <= i}) = k

\* C6: de-duplication keeps exactly the first event of every normalized
\* title key, in input order, whatever the source of the later ones; the
\* keys of the kept events are pairwise distinct.
C6_FirstPerKey ==
    applied =>
        /\ Len(listOut) = Cardinality(FirstPositions)
        /\ \A k \in 1..Len(listOut) : listOut[k] = listIn[NthOf(FirstPositions, k)]
        /\ \A k, m \in 1..Len(listOut) :
               k # m => TitleKey(listOut[k].event_name) # TitleKey(listOut[m].event_name)

\* Three events of three sources, the second a differently written duplicate
\* of the first, another key in between: two events are kept.
C6_Witness ==
    /\ applied
    /\ Len(listIn) = 4
    /\ listIn[1].event_name = TitleAIHack
    /\ listIn[2].event_name = TitleWeb3Jam
    /\ listIn[3].event_name = TitleAIHackLower
    /\ listIn[4].event_name = TitleAIHackBang
    /\ listOut = <<listIn[1], listIn[2]>>

(***************************************************************************)
(* The sort on its own (specification SortSpec): the de-duplicated list is *)
(* any list of at most MaxSortLen events with pairwise distinct titles     *)
(* whose start dates are drawn from SortDates: no date, a string that does *)
(* not parse, and two calendar dates.  The events are Unstop's, whose      *)
(* adapter passes the upstream start_date through unchanged.               *)
(***************************************************************************)
MaxSortLen == 7

SortDates == {Null, "TBA", "2025-01-15", "2025-03-01"}

SortTitle(i) == <<"e", DigitChars[i + 1]>>

\* The de-duplicated list of n events with the start dates f[1], ..., f[n].
SortInput(n, f) ==
    [i \in 1..n |-> Event("Unstop", SortTitle(i), DedupLinks[i], f[i])]

SortInit ==
    /\ \E n \in 0..MaxSortLen :
           \E f \in [1..n -> SortDates] : listIn = SortInput(n, f)
    /\ listOut = <<>>
    /\ applied = FALSE
    /\ resort = NotResorted

\* uniqueEvents.sort(...) of getAllEvents, run on listIn.
ApplySort ==
    /\ ~applied
    /\ listOut' = SortByDate(listIn)
    /\ applied' = TRUE
    /\ UNCHANGED <<listIn, resort>>
    /\ UNCHANGED pipelineVars
    /\ UNCHANGED testVars
    /\ UNCHANGED callVars

\* The same sort run again, on the list the first run returned.
Resort ==
    /\ applied
    /\ ~resort.done
    /\ resort' = [done |-> TRUE, out |-> SortByDate(listOut)]
    /\ UNCHANGED <<listIn, listOut, applied>>
    /\ UNCHANGED pipelineVars
    /\ UNCHANGED testVars
    /\ UNCHANGED callVars

SortNext == ApplySort \/ Resort

SortStart == PipelineInit /\ SortInit /\ TestInit /\ CallInit

SortSpec == SortStart /\ [][SortNext]_vars

Undated(e) == Falsy(e.start_date)
Parseable(e) == ~Falsy(e.start_date) /\ ~DateParse(e.start_date).nan
Unparseable(e) == ~Falsy(e.start_date) /\ DateParse(e.start_date).nan

\* The events with a parseable start date are in ascending order of it.
ParseableAscending(list) ==
    \A i, j \in 1..Len(list) :
        (i < j /\ Parseable(list[i]) /\ Parseable(list[j]))
            => DateParse(list[i].start_date).n <= DateParse(list[j].start_date).n

\* The position of an event of listIn in listOut.
PositionOf(e) == CHOOSE k \in 1..Len(listOut) : listOut[k] = e

\* C7: in the sorted output every event without a start date comes after
\* every event that has one, and the events that have start dates are in
\* ascending order of their parsed dates.
C7_SortOrder ==
    applied =>
        /\ \A i, j \in 1..Len(listOut) :
               (i < j /\ Undated(listOut[i])) => Undated(listOut[j])
        /\ ParseableAscending(listOut)

\* C8: an event whose start date does not parse is ordered like an event
\* without a date: it comes after every event with a parseable start date,
\* and the parseable-dated events stay in ascending order.
C8_UnparseableLast ==
    applied =>
        /\ \A i, j \in 1..Len(listOut) :
               (i < j /\ Unparseable(listOut[i])) => ~Parseable(listOut[j])
        /\ ParseableAscending(listOut)

\* Two events have equal ordering keys: both have no start date, or both
\* have the same parsed start date.
EqualKeys(a, b) ==
    \/ Undated(a) /\ Undated(b)
    \/ /\ Parseable(a) /\ Parseable(b)
       /\ DateParse(a.start_date) = DateParse(b.start_date)

\* C9: the sort is stable: two events with equal ordering keys are in the
\* output in the relative order they had in the de-duplicated input.
C9_Stable ==
    applied =>
        \A i, j \in 1..Len(listIn) :
            (i < j /\ EqualKeys(listIn[i], listIn[j]))
                => PositionOf(listIn[i]) < PositionOf(listIn[j])

(***************************************************************************)
(* testScrapers (specification TestSpec): the adapters are called one      *)
(* after the other, each on a response of up to MaxRecords records; every  *)
(* third record of a response may lack its title.                          *)
(***************************************************************************)
MaxRecords == 22

TestRecords(n, gaps) ==
    [k \in 1..n |-> Rec(IF gaps /\ k % 3 = 0 THEN Undefined ELSE TitleWeb3Jam,
                        "r", IF k % 2 = 0 THEN Null ELSE "2025-03-01")]

\* A response in which one record carries a date that Date cannot parse.
BadDateRecords ==
    <<Rec(TitleAIHack, "r1", "2025-03-01"),
      Rec(TitleWeb3Jam, "r2", "TBA"),
      Rec(TitleCodeFest, "r3", Null)>>

TestBodies ==
    {Body(TestRecords(n, gaps)) : n \in 0..MaxRecords, gaps \in BOOLEAN}
        \cup {Body(BadDateRecords)}

TestTransports(i) ==
    CASE i = 1 -> {[rss |-> b, api |-> Failed] : b \in TestBodies \cup {Failed}}
                      \cup {[rss |-> Failed, api |-> b] : b \in TestBodies \cup {NoList}}
      [] i = 4 -> {[launch |-> TRUE, page |-> b, close |-> c] :
                       b \in TestBodies \cup {Failed}, c \in BOOLEAN}
                      \cup {[launch |-> FALSE, page |-> Failed, close |-> TRUE]}
      [] OTHER -> TestBodies \cup {Failed, NoList}

\* One iteration of the loop of testScrapers: events = await test.fn(),
\* a rejection being caught and logged.
RunTest ==
    /\ testIndex <= Len(Sources)
    /\ \E t \in TestTransports(testIndex) :
           /\ testResult' = CallAdapter(testIndex, t)
           /\ testInput' = t
    /\ testIndex' = testIndex + 1
    /\ UNCHANGED pipelineVars
    /\ UNCHANGED listVars
    /\ UNCHANGED callVars

TestNext == RunTest

TestStart == PipelineInit /\ ListInit /\ TestInit /\ CallInit

TestSpec == TestStart /\ [][TestNext]_vars

\* C10: every adapter returns at most 20 events per call, whatever the
\* number of records the source delivers.
C10_AtMostTwenty ==
    testResult.status = "fulfilled" => Len(testResult.value) <= MaxPerSource

\* The adapter that testScrapers called last, the response that adapter
\* maps with new Date(x).toISOString(), and the records of it that the
\* adapter looks at.
LastCalled == testIndex - 1

DateMappedCall == LastCalled \in {1, 3, 5}

DateMappedResponse == IF LastCalled = 1 THEN testInput.rss ELSE testInput

DateMappedRecords ==
    IF LastCalled = 3
    THEN DateMappedResponse.records
    ELSE Slice(DateMappedResponse.records)

\* C11: an unparseable date in a record never makes the adapter fail: when
\* the response arrived with its list, the adapter resolves with one event
\* per record it looks at, in order, the event of a record whose date does
\* not parse carrying the raw string or null.
C11_BadDateKeepsEvents ==
    (DateMappedCall /\ DateMappedResponse.ok /\ DateMappedResponse.hasList)
        => /\ testResult.status = "fulfilled"
           /\ Len(testResult.value) = Len(DateMappedRecords)
           /\ \A k \in 1..Len(DateMappedRecords) :
                  /\ testResult.value[k].event_name = DateMappedRecords[k].title
                  /\ testResult.value[k].event_link = DateMappedRecords[k].link
                  /\ IsoOrNullThrows(DateMappedRecords[k].date)
                         => testResult.value[k].start_date
                                \in {DateMappedRecords[k].date, Null}

\* C12: no adapter call rejects, whatever fails in its transport, in its
\* mapping or while it releases its resources.
C12_AdapterNeverRejects == testResult.status # "rejected"

(***************************************************************************)
(* Transports that never answer (specification HangSpec).  Five adapters   *)
(* await an axios call made without a timeout option (src/index.js:38, 69, *)
(* 108, 252, 280): when the server never answers, the promise of such a    *)
(* call stays pending and so does the promise of the adapter.  The event   *)
(* loop runs every continuation that is ready, hence the weak fairness of  *)
(* the steps of getAllEvents; nothing forces a transport to hang.          *)
(***************************************************************************)
Hangable == {1, 2, 3, 5, 6}

Hang(i) ==
    /\ pc = "awaiting"
    /\ i \in Hangable
    /\ outcome[i].status = "pending"
    /\ i \notin hung
    /\ hung' = hung \cup {i}
    /\ UNCHANGED <<pc, outcome, settleOrder, allEvents, stats, returned>>
    /\ UNCHANGED listVars
    /\ UNCHANGED testVars
    /\ UNCHANGED callVars

HangNext == Start \/ (\E i \in SourceIds : Settle(i)) \/ Aggregate
                \/ (\E i \in SourceIds : Hang(i))

HangSpec ==
    /\ Init
    /\ [][HangNext]_vars
    /\ WF_vars(Start)
    /\ \A i \in SourceIds : WF_vars(Settle(i))
    /\ WF_vars(Aggregate)

\* Some step of getAllEvents can be taken: the call itself, the settling
\* of a pending adapter whose transport answers, or the continuation after
\* the await once no adapter is pending.
CanProceed ==
    \/ pc = "idle"
    \/ /\ pc = "awaiting"
       /\ \/ \E i \in SourceIds : outcome[i].status = "pending" /\ i \notin hung
          \/ \A i \in SourceIds : outcome[i].status # "pending"

\* C13: a transport call that never returns does not hang the run: as long
\* as getAllEvents has not returned, some step of it can still be taken, so
\* that under the fairness of HangSpec it eventually returns.
C13_NeverStuck == Finished \/ CanProceed

\* C16: sorting a list the sort has returned gives the same list in the
\* same order, whatever mix of dated, undated and unparseable entries the
\* list holds.
C16_ResortFixpoint == resort.done => resort.out = listOut

\* A list with a dated, an undated and an unparseable entry that the first
\* sort reordered and that has been sorted again.
C16_Witness ==
    /\ resort.done
    /\ listOut # listIn
    /\ \E i \in 1..Len(listOut) : Parseable(listOut[i])
    /\ \E i \in 1..Len(listOut) : Undated(listOut[i])
    /\ \E i \in 1..Len(listOut) : Unparseable(listOut[i])

\* The events of a list that are the first of their key, in list order.
FirstOccurrences(events) ==
    LET first == {i \in 1..Len(events) :
                     \A j \in 1..(i - 1) :
                         TitleKey(events[j].event_name) # TitleKey(events[i].event_name)}
    IN  [k \in 1..Cardinality(first) |-> events[NthOf(first, k)]]

Occurrences(events, e) == Cardinality({i \in 1..Len(events) : events[i] = e})

IsPermutation(s, t) ==
    /\ Len(s) = Len(t)
    /\ \A e \in Range(s) \cup Range(t) : Occurrences(s, e) = Occurrences(t, e)

\* C17: the list getAllEvents returns is a permutation of the events that
\* are the first of their title key in the concatenation, in registration
\* order, of the results of the successful adapters: nothing is invented,
\* duplicated or lost except by the de-duplication, and the list depends
\* on the adapters' results only, not on the statistics.
C17_OutputContent ==
    pc = "resolved" =>
        IsPermutation(returned, FirstOccurrences(RegistrationConcat(Len(Sources))))

\* A run in which an adapter rejected, the de-duplication removed an event
\* and the sort changed the order of those it kept.
C17_Witness ==
    /\ pc = "resolved"
    /\ \E i \in SourceIds : outcome[i].status = "rejected"
    /\ Len(returned) >= 3
    /\ Len(returned) < Len(RegistrationConcat(Len(Sources)))
    /\ returned # FirstOccurrences(RegistrationConcat(Len(Sources)))

(***************************************************************************)
(* One call of scrapeDevpost, statement by statement (specification        *)
(* DevpostSpec), on every pair of answers of the feed and of the JSON      *)
(* endpoint.                                                               *)
(***************************************************************************)
DevpostAnswers ==
    {Failed, NoList, Body(BadDateRecords)}
        \cup {Body(TestRecords(n, FALSE)) : n \in {0, 2, MaxRecords}}

DevpostInit ==
    \E a \in DevpostAnswers : \E b \in DevpostAnswers :
        devpost = DevpostCall([rss |-> a, api |-> b])

DevpostAdvance ==
    /\ devpost.pc \notin {"idle", "done"}
    /\ devpost' = DevpostStep(devpost)
    /\ UNCHANGED <<devfolio, legacy>>
    /\ UNCHANGED pipelineVars
    /\ UNCHANGED listVars
    /\ UNCHANGED testVars

DevpostNext == DevpostAdvance

DevpostStart ==
    /\ PipelineInit /\ ListInit /\ TestInit
    /\ DevpostInit
    /\ devfolio = DevfolioIdle
    /\ legacy = LegacyIdle

DevpostSpec == DevpostStart /\ [][DevpostNext]_vars

\* The primary attempt fails when the feed cannot be fetched, has no items
\* or cannot be mapped.
PrimaryFailed == DevpostRssThrows(devpost.rss)

\* C14: the fallback endpoint is called only after the primary attempt has
\* failed, and each endpoint at most once; the call returns the events of
\* the first attempt that succeeds and the empty list when both fail.
C14_PrimaryThenFallback ==
    /\ devpost.rssCalls <= 1
    /\ devpost.apiCalls <= 1
    /\ devpost.apiCalls = 1 => devpost.rssCalls = 1 /\ PrimaryFailed
    /\ devpost.pc = "done" =>
           /\ ~PrimaryFailed => devpost.apiCalls = 0
           /\ devpost.result =
                  IF ~PrimaryFailed
                  THEN Fulfilled(Map(DevpostItemEvent, Slice(devpost.rss.records)))
                  ELSE IF devpost.api.ok /\ devpost.api.hasList
                       THEN Fulfilled(Map(DevpostApiEvent, Slice(devpost.api.records)))
                       ELSE Fulfilled(<<>>)

\* The feed failed, the JSON endpoint answered, and its events are returned.
C14_Witness ==
    /\ devpost.pc = "done"
    /\ PrimaryFailed
    /\ devpost.apiCalls = 1
    /\ devpost.api.ok
    /\ Len(devpost.result.value) > 0

(***************************************************************************)
(* One call of scrapeDevfolio, statement by statement, inside a run of     *)
(* getAllEvents (specification DevfolioSpec).  The run starts at the await *)
(* of getAllEvents with the other five adapters settled on failed          *)
(* transports; any one awaited statement of scrapeDevfolio may throw, and  *)
(* so may browser.close().                                                 *)
(***************************************************************************)
DevfolioFailures == Range(DevfolioStatements) \cup {"none"}

DevfolioPages == {TestRecords(n, TRUE) : n \in {0, 3, MaxRecords}}

DevfolioInit ==
    /\ pc = "awaiting"
    /\ outcome = [i \in SourceIds |-> IF i = 4 THEN Pending ELSE Fulfilled(<<>>)]
    /\ settleOrder = <<1, 2, 3, 5, 6>>
    /\ allEvents = <<>>
    /\ stats = [success |-> 0, failed |-> 0]
    /\ returned = <<>>
    /\ hung = {}
    /\ \E failAt \in DevfolioFailures : \E cards \in DevfolioPages :
           \E close \in BOOLEAN : devfolio = DevfolioCall(failAt, cards, close)

DevfolioAdvance ==
    /\ devfolio.pc \notin {"idle", "done"}
    /\ devfolio' = DevfolioStep(devfolio)
    /\ UNCHANGED <<devpost, legacy>>
    /\ UNCHANGED pipelineVars
    /\ UNCHANGED listVars
    /\ UNCHANGED testVars

\* The promise of the call settles with what the call returned or threw.
DevfolioSettle ==
    /\ pc = "awaiting"
    /\ devfolio.pc = "done"
    /\ outcome[4].status = "pending"
    /\ outcome' = [outcome EXCEPT ![4] = devfolio.result]
    /\ settleOrder' = Append(settleOrder, 4)
    /\ UNCHANGED <<pc, allEvents, stats, returned, hung>>
    /\ UNCHANGED listVars
    /\ UNCHANGED testVars
    /\ UNCHANGED callVars

DevfolioNext == DevfolioAdvance \/ DevfolioSettle \/ Aggregate

DevfolioStart ==
    /\ DevfolioInit
    /\ ListInit /\ TestInit
    /\ devpost = DevpostIdle
    /\ legacy = LegacyIdle

DevfolioSpec == DevfolioStart /\ [][DevfolioNext]_vars

\* C15: on every path of scrapeDevfolio on which the browser was launched,
\* browser.close() has been called, once, before the call settles, and the
\* browser is closed unless close() itself threw; so no browser is open
\* once the call has settled, nor once getAllEvents has returned.
C15_BrowserClosed ==
    /\ devfolio.closeCalls <= 1
    /\ devfolio.result.status # "pending" =>
           \/ devfolio.browser = "none" /\ devfolio.failAt = "launch"
           \/ /\ devfolio.closeCalls = 1
              /\ devfolio.browser = IF devfolio.close THEN "closed" ELSE "close failed"
    /\ outcome[4].status # "pending" => devfolio.browser # "open"
    /\ Finished => devfolio.browser # "open"

\* The navigation timed out, the browser was closed, getAllEvents returned.
C15_Witness ==
    /\ Finished
    /\ devfolio.failAt = "goto"
    /\ devfolio.browser = "closed"
    /\ devfolio.closeCalls = 1

(***************************************************************************)
(* One run of the sequential runner (specification LegacySpec): every      *)
(* source answers with a failure, with a body without items or with up to  *)
(* MaxLegacyItems items, some of which may lack their title or their link; *)
(* the spreadsheet works or throws, in getSheets or in append; at most one *)
(* of the chat posts throws.                                               *)
(***************************************************************************)
MaxLegacyItems == 3

LegacyRecords(n, gaps) ==
    [k \in 1..n |->
        Rec(IF gaps /\ k % 3 = 0 THEN Undefined
            ELSE IF k % 2 = 0 THEN TitleCodeFestPadded ELSE TitleWeb3Jam,
            IF gaps /\ k % 3 = 2 THEN Null ELSE "l",
            Null)]

LegacyAnswers ==
    {Failed, NoList}
        \cup {Body(LegacyRecords(n, gaps)) : n \in 0..MaxLegacyItems, gaps \in BOOLEAN}

LegacySheets == {"ok", "getSheets throws", "append throws"}

LegacyInit ==
    \E r \in [1..Len(LegacySources) -> LegacyAnswers] :
        \E sheet \in LegacySheets : \E chatFailAt \in 0..MaxLegacyItems :
            legacy = LegacyRun(r, sheet, chatFailAt)

LegacyAdvance ==
    /\ legacy.pc \notin {"idle", "done", "crashed"}
    /\ legacy' = LegacyStep(legacy)
    /\ UNCHANGED <<devpost, devfolio>>
    /\ UNCHANGED pipelineVars
    /\ UNCHANGED listVars
    /\ UNCHANGED testVars

LegacyNext == LegacyAdvance

LegacyStart ==
    /\ PipelineInit /\ ListInit /\ TestInit
    /\ devpost = DevpostIdle
    /\ devfolio = DevfolioIdle
    /\ LegacyInit

LegacySpec == LegacyStart /\ [][LegacyNext]_vars

\* The events the sources fetched so far have delivered, in list order.
RECURSIVE GatheredUpTo(_)
GatheredUpTo(k) ==
    IF k = 0 THEN <<>>
    ELSE GatheredUpTo(k - 1) \o LegacyPushed(LegacySources[k], legacy.responses[k])

\* C18: the sequential runner fetches its sources one at a time in list
\* order; a source that fails neither removes the events gathered before
\* it nor keeps the later sources from being fetched; no chat message is
\* posted unless the append to the spreadsheet has completed; with no
\* event gathered, neither the spreadsheet nor the chat is called.
C18_SequentialRunner ==
    /\ legacy.scraped = [k \in 1..Len(legacy.scraped) |-> LegacySources[k].name]
    /\ legacy.pc \notin {"idle", "scrape"} => Len(legacy.scraped) = Len(LegacySources)
    /\ legacy.events = GatheredUpTo(Len(legacy.scraped))
    /\ legacy.chatCalls > 0 => legacy.appended
    /\ legacy.appended => legacy.sheetCalls = 1 /\ legacy.sheet = "ok"
    /\ Len(legacy.events) = 0 => legacy.sheetCalls = 0 /\ legacy.chatCalls = 0
    /\ legacy.sheetCalls + legacy.chatCalls > 0 =>
           legacy.pc \in {"sendToTelegram", "done", "crashed"}

\* The second source failed, the first and the third delivered events, the
\* sheet was appended to and every event was posted.
C18_Witness ==
    /\ legacy.pc = "done"
    /\ ~legacy.responses[2].ok
    /\ \E i, j \in 1..Len(legacy.events) :
           i < j /\ legacy.events[i].source = "Devpost"
                 /\ legacy.events[j].source = "Kaggle"
    /\ legacy.appended
    /\ legacy.sent = Len(legacy.events)

====
